---- MODULE Spec2Model ----
(***************************************************************************)
(* Model of osmium::relations::RelationsDatabase and RelationHandle        *)
(* (contrib/libosmium/osmium/relations/relations_database.hpp).            *)
(*                                                                         *)
(* Positions are 0-based as in the C++ code; slot pos of the vector is     *)
(* m_elements[pos + 1] of the TLA+ sequence.                               *)
(*                                                                         *)
(* The std::size_t counter keeps its width: its values are 0 .. MaxCount   *)
(* and SizeMax, the largest std::size_t (2^64 - 1 where size_t has 64      *)
(* bits), written here as -1, its representative modulo 2^64.  ++ on       *)
(* SizeMax gives 0 and -- on 0 gives SizeMax, as unsigned arithmetic does. *)
(* The values between MaxCount and SizeMax are not explored.               *)
(*                                                                         *)
(* assert() is active in a debug build and compiled out under NDEBUG; the  *)
(* build is fixed by Init (ndebug).                                        *)
(***************************************************************************)
EXTENDS Integers, Sequences, FiniteSets, TLC

\* ------------------------------------------------------------------ bounds
MaxSlots == 2          \* at most this many add() calls
MaxCount == 2          \* counters in 0 .. MaxCount, or SizeMax
MaxExtraRemoves == 1   \* at most this many remove() calls on removed slots

\* the largest std::size_t, as its representative modulo 2^64
SizeMax == 0 - 1
Garbage == 0 - 1
NoPos == 0 - 1

\* values a caller passes to set_members()
SetValues == (0 .. MaxCount) \cup {SizeMax}

\* the relation the input stream delivers as its k-th relation
Relation(k) == k

VARIABLES
    ndebug,       \* TRUE: built with NDEBUG, assert() is a no-op
    aborted,      \* the process was terminated by a failed assert / crash
    m_elements,   \* RelationsDatabase::m_elements
    m_stash,      \* the ItemStash: m_stash[h] is the item behind handle h
    last,         \* the most recent call and what it returned
    fe_pc,        \* for_each_relation: "idle", "loop" or "done"
    fe_pos,       \* for_each_relation: loop variable pos
    visited,      \* positions handed to the callback in the current pass
    cbOps,        \* kinds of database mutation the callback made in the pass
    fe_start,     \* positions that were live when the pass began
    cbRemoves,    \* remove() calls the callback made in the pass that returned
    cbAhead,      \* positions the callback removed before the pass reached them
    nInserts,     \* number of add() calls performed
    nRemoves,     \* number of remove() calls that returned
    issued,       \* the positions add() has returned
    track         \* per slot: set_members(n) followed only by decrements

vars == <<ndebug, aborted, m_elements, m_stash, last, fe_pc, fe_pos, visited,
          cbOps, fe_start, cbRemoves, cbAhead, nInserts, nRemoves, issued, track>>

dbvars == <<m_elements, m_stash, nInserts, nRemoves, issued, track>>
fevars == <<fe_pc, fe_pos, visited, cbOps, fe_start, cbRemoves, cbAhead>>

\* ------------------------------------------------------------- ItemStash
\* osmium::ItemStash::handle_type: the default-constructed handle is invalid.
InvalidHandle == 0

valid(h) == h # InvalidHandle

\* ItemStash::add_item: copies the item, returns a new stable handle.
stash_add_item(st, r) == Append(st, [rel |-> r, removed |-> FALSE])

\* ItemStash::remove_item on a valid handle.
stash_remove_item(st, h) == [st EXCEPT ![h].removed = TRUE]

\* ItemStash::get on a valid handle.
stash_get(st, h) == st[h].rel

\* ------------------------------------------------------ RelationsDatabase
element(h, n) == [handle |-> h, members |-> n]

Elem(pos) == m_elements[pos + 1]

size == Len(m_elements)

Positions == 0 .. (size - 1)

members(pos) == Elem(pos).members

count_relations == Cardinality({p \in Positions : valid(Elem(p).handle)})

has_all_members(pos) == members(pos) = 0

\* add() that puts the new element in front of the others
add_elements_front(els, h) == <<element(h, 0)>> \o els

\* add() that reuses the first removed slot, if there is one
add_elements_reuse(els, h) ==
    IF \E i \in 1 .. Len(els) : els[i].handle = InvalidHandle
    THEN [els EXCEPT ![CHOOSE i \in 1 .. Len(els) : els[i].handle = InvalidHandle] =
              element(h, 0)]
    ELSE Append(els, element(h, 0))

\* the vector after add(): push_back(element{handle, 0})
add_elements(els, h) == Append(els, element(h, 0))

\* the position add() returns: m_elements.size() - 1 after the push_back
add_pos(els) == Len(els) - 1

\* remove() that erases the slot from the vector instead of resetting it
remove_elements_erase(els, pos) ==
    SubSeq(els, 1, pos) \o SubSeq(els, pos + 2, Len(els))

\* remove() that resets the slot and every slot after it
remove_elements_tail(els, pos) ==
    [i \in 1 .. Len(els) |->
        IF i >= pos + 1 THEN element(InvalidHandle, 0) ELSE els[i]]

\* the vector after remove(pos): elem = element{handle_type{}, 0}
remove_elements(els, pos) == [els EXCEPT ![pos + 1] = element(InvalidHandle, 0)]

\* a set_members that never lowers the counter
set_value_raise(old, value) == IF old > value THEN old ELSE value

\* the counter after set_members(value)
set_value(old, value) == value

\* an increment that is lost (made on a copy of the counter)
inc_value_lost(old) == old

\* ++ on std::size_t
inc_value(old) == IF old = SizeMax THEN 0 ELSE old + 1

\* a decrement that clears the counter instead of counting down
dec_value_clear(old) == IF old = 0 THEN SizeMax ELSE 0

\* -- on std::size_t
dec_value(old) == IF old = 0 THEN SizeMax ELSE old - 1

\* -------------------------------------------------------- bookkeeping
NoTrack == [on |-> FALSE, n |-> 0, k |-> 0]

Call(op, pos, ok, val, arg, pre, stale) ==
    [op |-> op, pos |-> pos, ok |-> ok, val |-> val, arg |-> arg,
     pre |-> pre, stale |-> stale]

\* remove() calls that returned although the slot was already removed
ExtraRemoves == nRemoves - (size - count_relations)

Stale(pos) == ~valid(Elem(pos).handle)

Init ==
    /\ ndebug \in BOOLEAN
    /\ aborted = FALSE
    /\ m_elements = <<>>
    /\ m_stash = <<>>
    /\ last = Call("init", NoPos, TRUE, 0, 0, 0, FALSE)
    /\ fe_pc = "idle"
    /\ fe_pos = 0
    /\ visited = <<>>
    /\ cbOps = {}
    /\ fe_start = {}
    /\ cbRemoves = 0
    /\ cbAhead = {}
    /\ nInserts = 0
    /\ nRemoves = 0
    /\ issued = {}
    /\ track = <<>>

\* ------------------------------------------------------------ operations
\* RelationsDatabase::add
DoAdd ==
    /\ size < MaxSlots
    /\ m_stash' = stash_add_item(m_stash, Relation(nInserts + 1))
    /\ m_elements' = add_elements(m_elements, Len(m_stash'))
    /\ last' = Call("add", add_pos(m_elements'), TRUE, add_pos(m_elements'), 0, 0, FALSE)
    /\ nInserts' = nInserts + 1
    /\ issued' = issued \cup {add_pos(m_elements')}
    /\ track' = Append(track, NoTrack)
    /\ UNCHANGED <<ndebug, aborted, nRemoves>>

\* RelationHandle::remove -> RelationsDatabase::remove
DoRemove(pos) ==
    /\ IF valid(Elem(pos).handle)
       THEN /\ m_stash' = stash_remove_item(m_stash, Elem(pos).handle)
            /\ m_elements' = remove_elements(m_elements, pos)
            /\ nRemoves' = nRemoves + 1
            /\ track' = [track EXCEPT ![pos + 1] = NoTrack]
            /\ last' = Call("remove", pos, TRUE, 0, 0, 0, FALSE)
            /\ UNCHANGED <<ndebug, aborted, nInserts, issued>>
       ELSE \* remove_item on an invalid handle: assert in the stash, or
            \* undefined behaviour that crashes or goes unnoticed
            \/ /\ aborted' = TRUE
               /\ last' = Call("remove", pos, FALSE, 0, 0, 0, TRUE)
               /\ UNCHANGED <<ndebug, dbvars>>
            \/ /\ ndebug
               /\ ExtraRemoves < MaxExtraRemoves
               /\ m_elements' = remove_elements(m_elements, pos)
               /\ nRemoves' = nRemoves + 1
               /\ track' = [track EXCEPT ![pos + 1] = NoTrack]
               /\ last' = Call("remove", pos, TRUE, 0, 0, 0, TRUE)
               /\ UNCHANGED <<ndebug, aborted, m_stash, nInserts, issued>>

\* RelationHandle::set_members
DoSetMembers(pos, value) ==
    /\ m_elements' = [m_elements EXCEPT ![pos + 1].members = set_value(@, value)]
    /\ track' = [track EXCEPT ![pos + 1] =
                    IF value \in 1 .. MaxCount /\ ~Stale(pos)
                    THEN [on |-> TRUE, n |-> value, k |-> 0] ELSE NoTrack]
    /\ last' = Call("set", pos, TRUE, 0, value, 0, Stale(pos))
    /\ UNCHANGED <<ndebug, aborted, m_stash, nInserts, nRemoves, issued>>

\* RelationHandle::increment_members
DoIncrementMembers(pos) ==
    /\ members(pos) # MaxCount
    /\ m_elements' = [m_elements EXCEPT ![pos + 1].members = inc_value(@)]
    /\ track' = [track EXCEPT ![pos + 1] = NoTrack]
    /\ last' = Call("inc", pos, TRUE, 0, 0, members(pos), Stale(pos))
    /\ UNCHANGED <<ndebug, aborted, m_stash, nInserts, nRemoves, issued>>

\* RelationHandle::decrement_members
DoDecrementMembers(pos) ==
    IF members(pos) = 0 /\ ~ndebug
    THEN \* assert(members(m_pos) > 0) fails
         /\ aborted' = TRUE
         /\ last' = Call("dec", pos, FALSE, 0, 0, members(pos), Stale(pos))
         /\ UNCHANGED <<ndebug, dbvars>>
    ELSE /\ members(pos) # SizeMax
         /\ m_elements' = [m_elements EXCEPT ![pos + 1].members = dec_value(@)]
         /\ track' = [track EXCEPT ![pos + 1] =
                         IF @.on /\ @.k < @.n
                         THEN [@ EXCEPT !.k = @ + 1] ELSE NoTrack]
         /\ last' = Call("dec", pos, TRUE, 0, 0, members(pos), Stale(pos))
         /\ UNCHANGED <<ndebug, aborted, m_stash, nInserts, nRemoves, issued>>

\* RelationHandle::operator* / operator-> -> RelationsDatabase::get_relation
DoGetRelation(pos) ==
    IF valid(Elem(pos).handle)
    THEN /\ last' = Call("get", pos, TRUE, stash_get(m_stash, Elem(pos).handle), 0, 0, FALSE)
         /\ UNCHANGED <<ndebug, aborted, dbvars>>
    ELSE \* ItemStash::get on an invalid handle: the stash fails, or it
         \* reads whatever lies at the computed address
         \/ /\ aborted' = TRUE
            /\ last' = Call("get", pos, FALSE, 0, 0, 0, TRUE)
            /\ UNCHANGED <<ndebug, dbvars>>
         \/ /\ ndebug
            /\ last' = Call("get", pos, TRUE, Garbage, 0, 0, TRUE)
            /\ UNCHANGED <<ndebug, aborted, dbvars>>

\* an operator[] that always hands out the first position
at_pos_first(pos) == 0

\* the position of the handle operator[] returns: {this, pos}
at_pos(pos) == pos

\* RelationsDatabase::operator[]
DoAt(pos) ==
    IF pos >= size /\ ~ndebug
    THEN \* assert(pos < m_elements.size()) fails
         /\ aborted' = TRUE
         /\ last' = Call("at", pos, FALSE, 0, 0, 0, FALSE)
         /\ UNCHANGED <<ndebug, dbvars>>
    ELSE /\ last' = Call("at", pos, TRUE, at_pos(pos), 0, 0, FALSE)
         /\ UNCHANGED <<ndebug, aborted, dbvars>>

Ready == fe_pc = "idle" /\ ~aborted

Add == Ready /\ DoAdd /\ UNCHANGED fevars

Remove(pos) == Ready /\ DoRemove(pos) /\ UNCHANGED fevars

SetMembers(pos, value) == Ready /\ DoSetMembers(pos, value) /\ UNCHANGED fevars

IncrementMembers(pos) == Ready /\ DoIncrementMembers(pos) /\ UNCHANGED fevars

DecrementMembers(pos) == Ready /\ DoDecrementMembers(pos) /\ UNCHANGED fevars

GetRelation(pos) == Ready /\ DoGetRelation(pos) /\ UNCHANGED fevars

At(pos) == Ready /\ DoAt(pos) /\ UNCHANGED fevars

\* ----------------------------------------------------- for_each_relation
\* for_each_relation is entered: pos = 0
ForEachBegin ==
    /\ Ready
    /\ fe_pc' = "loop"
    /\ fe_pos' = 0
    /\ visited' = <<>>
    /\ cbOps' = {}
    /\ fe_start' = {p \in Positions : valid(Elem(p).handle)}
    /\ cbRemoves' = 0
    /\ cbAhead' = {}
    /\ last' = Call("for_each", NoPos, TRUE, 0, 0, 0, FALSE)
    /\ UNCHANGED <<ndebug, aborted, dbvars>>

\* a loop that only covers the slots that were live when it began
for_each_bound_start ==
    IF fe_start = {} THEN 0
    ELSE (CHOOSE p \in fe_start : \A q \in fe_start : q <= p) + 1

\* the loop bound, read again on every iteration: m_elements.size()
for_each_bound == size

InLoop == fe_pc = "loop" /\ ~aborted /\ fe_pos < for_each_bound

\* a loop body without the validity test
for_each_calls_all(pos) == TRUE

\* does the loop body hand position pos to the callback?
for_each_calls(pos) == valid(Elem(pos).handle)

\* the position the loop looks at after pos
for_each_next(pos) == pos + 1

\* one iteration whose slot is live; the callback returns without
\* changing the database
ForEachVisit ==
    /\ InLoop
    /\ for_each_calls(fe_pos)
    /\ visited' = Append(visited, fe_pos)
    /\ fe_pos' = for_each_next(fe_pos)
    /\ UNCHANGED <<ndebug, aborted, dbvars, last, fe_pc, cbOps, fe_start,
                   cbRemoves, cbAhead>>

\* one iteration whose slot is live; the callback removes position q
ForEachVisitRemove(q) ==
    /\ InLoop
    /\ for_each_calls(fe_pos)
    /\ visited' = Append(visited, fe_pos)
    /\ fe_pos' = for_each_next(fe_pos)
    /\ DoRemove(q)
    /\ cbOps' = cbOps \cup {IF q = fe_pos THEN "remove_current" ELSE "remove_other"}
    /\ cbRemoves' = IF last'.ok THEN cbRemoves + 1 ELSE cbRemoves
    /\ cbAhead' = IF last'.ok /\ q > fe_pos /\ ~Stale(q)
                  THEN cbAhead \cup {q} ELSE cbAhead
    /\ UNCHANGED <<fe_pc, fe_start>>

\* one iteration whose slot is live; the callback adds a relation
ForEachVisitAdd ==
    /\ InLoop
    /\ for_each_calls(fe_pos)
    /\ visited' = Append(visited, fe_pos)
    /\ fe_pos' = for_each_next(fe_pos)
    /\ DoAdd
    /\ cbOps' = cbOps \cup {"add"}
    /\ UNCHANGED <<fe_pc, fe_start, cbRemoves, cbAhead>>

\* one iteration whose slot is removed: the callback is not called
ForEachSkip ==
    /\ InLoop
    /\ ~for_each_calls(fe_pos)
    /\ fe_pos' = for_each_next(fe_pos)
    /\ UNCHANGED <<ndebug, aborted, dbvars, last, fe_pc, visited, cbOps, fe_start,
                   cbRemoves, cbAhead>>

\* the loop condition pos < m_elements.size() fails
ForEachExit ==
    /\ fe_pc = "loop"
    /\ ~aborted
    /\ fe_pos >= for_each_bound
    /\ fe_pc' = "done"
    /\ UNCHANGED <<ndebug, aborted, dbvars, last, fe_pos, visited, cbOps, fe_start,
                   cbRemoves, cbAhead>>

\* for_each_relation returns to its caller
ForEachReturn ==
    /\ fe_pc = "done"
    /\ ~aborted
    /\ fe_pc' = "idle"
    /\ fe_pos' = 0
    /\ visited' = <<>>
    /\ cbOps' = {}
    /\ fe_start' = {}
    /\ cbRemoves' = 0
    /\ cbAhead' = {}
    /\ UNCHANGED <<ndebug, aborted, dbvars, last>>

Next ==
    \/ Add
    \/ \E pos \in Positions : \E value \in SetValues : SetMembers(pos, value)
    \/ \E pos \in Positions : IncrementMembers(pos)
    \/ \E pos \in Positions : DecrementMembers(pos)
    \/ \E pos \in Positions : Remove(pos)
    \/ \E pos \in Positions : GetRelation(pos)
    \/ \E pos \in 0 .. size : At(pos)
    \/ ForEachBegin
    \/ ForEachVisit
    \/ \E q \in Positions : ForEachVisitRemove(q)
    \/ ForEachVisitAdd
    \/ ForEachSkip
    \/ ForEachExit
    \/ ForEachReturn

Spec == Init /\ [][Next]_vars

\* ------------------------------------------------------------------ C1
\* C1: after any sequence of operations size() equals the number of add()
\* calls performed so far; remove() never decreases it.
C1_SizeCountsInserts == size = nInserts

C1_Witness == nInserts = MaxSlots /\ nRemoves >= 1 /\ size = MaxSlots

\* ------------------------------------------------------------------ C2
\* C2: count_relations() equals size() minus the number of remove() calls
\* that have completed.
C2_CountIsSizeMinusRemoves == count_relations = size - nRemoves

\* ------------------------------------------------------------------ C3
\* C3: for a live slot, after set_members(n), n >= 1, followed only by
\* decrement_members() calls on that slot, has_all_members() is false after
\* each of the first n - 1 decrements and true exactly at the n-th: after
\* k <= n decrements the counter is n - k, and it is zero iff k = n.
C3_CompleteAtNthDecrement ==
    \A p \in Positions :
        track[p + 1].on =>
            /\ track[p + 1].k <= track[p + 1].n
            /\ members(p) = track[p + 1].n - track[p + 1].k
            /\ has_all_members(p) <=> (track[p + 1].k = track[p + 1].n)

C3_Witness ==
    \E p \in Positions :
        /\ track[p + 1].on
        /\ track[p + 1].n = MaxCount
        /\ track[p + 1].k = MaxCount
        /\ last.op = "dec"
        /\ last.pos = p
        /\ has_all_members(p)

\* ------------------------------------------------------------------ C4
\* C4: the counter never underflows: decrement_members() on a counter of 0
\* fails with an error and leaves the counter at 0, it never wraps to the
\* maximum value.
C4_NoUnderflow ==
    (last.op = "dec" /\ last.pre = 0) =>
        (~last.ok /\ members(last.pos) = 0 /\ members(last.pos) # SizeMax)

\* ------------------------------------------------------------------ C5
\* C5 as claimed: right after add() has_all_members() is true; after
\* set_members(n) with n > 0, or after increment_members() from any counter
\* value, has_all_members() is false.
C5_IncrementFromAnyValue ==
    /\ (last.op = "add" /\ last.ok) => has_all_members(last.val)
    /\ (last.op = "set" /\ last.ok /\ last.arg # 0) => ~has_all_members(last.pos)
    /\ (last.op = "inc" /\ last.ok) => ~has_all_members(last.pos)

\* C5 amended: right after add() has_all_members() is true; after
\* set_members(n) with n > 0 it is false; after increment_members() it is
\* false unless the counter was at the largest std::size_t value, where the
\* increment wraps to 0 and has_all_members() is true.
C5_IncrementBelowMax ==
    /\ (last.op = "add" /\ last.ok) => has_all_members(last.val)
    /\ (last.op = "set" /\ last.ok /\ last.arg # 0) => ~has_all_members(last.pos)
    /\ (last.op = "inc" /\ last.ok) =>
           (has_all_members(last.pos) <=> last.pre = SizeMax)

C5_Witness ==
    /\ last.op = "inc"
    /\ last.ok
    /\ last.pre = 0
    /\ ~Stale(last.pos)
    /\ ~has_all_members(last.pos)

\* ------------------------------------------------------------------ C6
\* C6: after remove() on a position the position is still below size(),
\* and every later payload access, counter mutation and second remove() on
\* it fails with an error instead of taking effect.
C6_RemovedSlotRejectsUse ==
    /\ \A p \in issued : p < size
    /\ (last.op \in {"get", "set", "inc", "dec", "remove"} /\ last.stale) =>
           ~last.ok

\* ------------------------------------------------------------------ C7
\* the positions below bound that hold a valid handle
LiveBelow(bound) == {p \in Positions : p < bound /\ valid(Elem(p).handle)}

\* C7: with a callback that does not mutate the database, for_each_relation
\* calls it exactly once for each position with a valid handle, for no other
\* position, in strictly ascending order: at every point of the pass the
\* visited positions are the live ones below pos, and all of them at the end.
C7_ForEachVisitsLive ==
    (fe_pc \in {"loop", "done"} /\ cbOps = {}) =>
        /\ \A i \in 1 .. Len(visited) : visited[i] \in LiveBelow(fe_pos)
        /\ \A p \in LiveBelow(fe_pos) : \E i \in 1 .. Len(visited) : visited[i] = p
        /\ \A i, j \in 1 .. Len(visited) : i < j => visited[i] < visited[j]
        /\ fe_pc = "done" => fe_pos >= size

C7_Witness ==
    /\ fe_pc = "done"
    /\ cbOps = {}
    /\ size = MaxSlots
    /\ Stale(0)
    /\ Len(visited) = MaxSlots - 1
    /\ visited[1] = 1

\* ------------------------------------------------------------------ C8
\* C8: add() returns the position size() had before the call, and leaves
\* every earlier position resolving to the same relation and counter.
C8_InsertKeepsPositions ==
    [][nInserts' # nInserts =>
          /\ last'.op = "add"
          /\ last'.val = size
          /\ size' = size + 1
          /\ \A p \in Positions :
                /\ m_elements'[p + 1] = m_elements[p + 1]
                /\ valid(Elem(p).handle) =>
                       stash_get(m_stash', m_elements'[p + 1].handle)
                           = stash_get(m_stash, Elem(p).handle)]_vars

C8_Witness ==
    /\ last.op = "add"
    /\ last.val = MaxSlots - 1
    /\ size = MaxSlots
    /\ valid(Elem(0).handle)
    /\ members(0) = MaxCount
    /\ stash_get(m_stash, Elem(0).handle) = Relation(1)

\* ------------------------------------------------------------------ C9
\* C9: in every reachable state every removed slot has an invalid handle
\* and a counter of 0, and no later operation on the position changes that.
C9_RemovedSlotIsZeroed ==
    \A p \in Positions : Stale(p) => members(p) = 0

\* ----------------------------------------------------------------- C10
\* C10: a handle that has become invalid never becomes valid again, and
\* add() never returns a position that an earlier add() returned.
C10_RemovalIsTerminal ==
    [][/\ \A p \in Positions :
             ~valid(Elem(p).handle) =>
                 (p < size' /\ ~valid(m_elements'[p + 1].handle))
       /\ nInserts' # nInserts => last'.val \notin issued]_vars

C10_Witness ==
    /\ last.op = "add"
    /\ last.val = MaxSlots - 1
    /\ Stale(0)
    /\ nRemoves >= 1

\* ----------------------------------------------------------------- C11
\* C11: every handle add() or operator[] produces has a position below
\* size(): operator[] with pos >= size() fails and produces no handle,
\* operator[] with pos < size() succeeds for live and removed slots alike.
C11_HandlesAreInRange ==
    /\ (last.op \in {"add", "at"} /\ last.ok) => last.val < size
    /\ (last.op = "at" /\ last.pos >= size) => ~last.ok
    /\ (last.op = "at" /\ last.pos < size) => last.ok

\* ----------------------------------------------------------------- C12
\* C12: a handle is its position and nothing else: operator[] on the
\* position of a handle gives a handle with that position, and what was
\* done through the first handle (counter change, removal) is what the
\* second one observes.
C12_HandleIsItsPosition ==
    /\ (last.op = "at" /\ last.ok /\ last.pos < size) => last.val = last.pos
    /\ (last.op = "add" /\ last.ok) => at_pos(last.val) = add_pos(m_elements)
    /\ (last.op = "set" /\ last.ok) => members(at_pos(last.pos)) = last.arg
    /\ (last.op = "inc" /\ last.ok) =>
           members(at_pos(last.pos)) = inc_value(last.pre)
    /\ (last.op = "dec" /\ last.ok) =>
           members(at_pos(last.pos)) = dec_value(last.pre)
    /\ (last.op = "remove" /\ last.ok) => Stale(at_pos(last.pos))

C12_Witness ==
    /\ last.op = "at"
    /\ last.ok
    /\ last.pos = MaxSlots - 1
    /\ size = MaxSlots
    /\ members(last.val) = MaxCount
    /\ Stale(0)

\* ----------------------------------------------------------------- C13
\* the step changes a slot without adding one: it is a set_members,
\* increment_members, decrement_members or remove call
SlotChanged == m_elements' # m_elements /\ nInserts' = nInserts

\* C13: set_members, increment_members, decrement_members and remove on
\* position p leave size() and the handle and counter of every other
\* position unchanged, and the stash item of every other live slot in place.
C13_OtherSlotsUntouched ==
    [][SlotChanged =>
          /\ last'.op \in {"set", "inc", "dec", "remove"}
          /\ size' = size
          /\ \A q \in Positions :
                q # last'.pos =>
                    /\ m_elements'[q + 1] = m_elements[q + 1]
                    /\ valid(Elem(q).handle) =>
                           m_stash'[Elem(q).handle] = m_stash[Elem(q).handle]]_vars

C13_Witness ==
    /\ last.op = "remove"
    /\ last.ok
    /\ last.pos = 0
    /\ size = MaxSlots
    /\ ~Stale(MaxSlots - 1)
    /\ members(MaxSlots - 1) = MaxCount

\* ----------------------------------------------------------------- C14
\* what the counter calls leave behind, as the claim has it
CounterEffects ==
    /\ (last.op = "set" /\ last.ok) => members(last.pos) = last.arg
    /\ (last.op = "inc" /\ last.ok /\ last.pre # SizeMax) =>
           members(last.pos) = last.pre + 1
    /\ (last.op = "dec" /\ last.ok /\ last.pre \in 1 .. MaxCount) =>
           members(last.pos) = last.pre - 1

\* the step is a decrement_members call right after an increment_members
\* call on the same position
DecAfterInc == last.op = "inc" /\ last'.op = "dec" /\ last'.pos = last.pos

\* C14 as claimed: set_members(n) leaves the counter at n whatever it was,
\* increment_members adds 1, decrement_members on a counter > 0 subtracts
\* 1, and an increment followed by a decrement restores the counter.
C14_IncDecRestores ==
    /\ []CounterEffects
    /\ [][DecAfterInc => (last'.ok /\ members(last.pos)' = last.pre)]_vars

\* C14 amended: as above, but the increment followed by a decrement
\* restores the counter only when it was below the largest std::size_t
\* value; from that value the increment wraps to 0 and the decrement that
\* follows is a decrement of 0.
C14_IncDecRestoresBelowMax ==
    /\ []CounterEffects
    /\ [][(DecAfterInc /\ last.pre # SizeMax) =>
             (last'.ok /\ members(last.pos)' = last.pre)]_vars
    /\ [](last.op = "inc" /\ last.ok /\ last.pre = SizeMax =>
             members(last.pos) = 0)

C14_Witness ==
    /\ last.op = "dec"
    /\ last.ok
    /\ last.pre = MaxCount
    /\ ~Stale(last.pos)
    /\ track[last.pos + 1] = NoTrack
    /\ members(last.pos) = MaxCount - 1

\* ----------------------------------------------------------------- C15
\* the positions handed to the callback so far
Visited == {visited[i] : i \in 1 .. Len(visited)}

Ascending == \A i, j \in 1 .. Len(visited) : i < j => visited[i] < visited[j]

\* C15: when the callback removes nothing but the slot it is visiting, the
\* pass visits every slot that was live at its start exactly once, in
\* ascending order, and count_relations() has gone down by exactly the
\* number of slots the callback removed.
C15_RemoveCurrentIsSafe ==
    (fe_pc \in {"loop", "done"} /\ cbOps \subseteq {"remove_current"}) =>
        /\ Ascending
        /\ Visited = {p \in fe_start : p < fe_pos}
        /\ count_relations = Cardinality(fe_start) - cbRemoves
        /\ fe_pc = "done" => Visited = fe_start

C15_Witness ==
    /\ fe_pc = "done"
    /\ cbOps = {"remove_current"}
    /\ cbRemoves = 1
    /\ Stale(0)
    /\ Len(visited) = MaxSlots
    /\ count_relations = MaxSlots - 1

\* ----------------------------------------------------------------- C16
\* the handles the stash has issued and not released
StashLive == {h \in 1 .. Len(m_stash) : ~m_stash[h].removed}

\* the valid handles held in slots
SlotHandles == {Elem(p).handle : p \in Positions} \ {InvalidHandle}

\* C16: the handles issued by add() and not yet released are exactly the
\* valid handles held in slots, pairwise distinct; each remove() releases
\* exactly one handle, and no handle is released twice or leaked.
C16_StashOwnershipExact ==
    /\ [](StashLive = SlotHandles)
    /\ [](Cardinality(SlotHandles) = count_relations)
    /\ [][nRemoves' # nRemoves =>
             (StashLive' \subseteq StashLive
              /\ Cardinality(StashLive') = Cardinality(StashLive) - 1)]_vars
    /\ [][nRemoves' = nRemoves => StashLive \subseteq StashLive']_vars

\* ----------------------------------------------------------------- C17
\* C17: for_each_relation reads the slot count again on every iteration: a
\* relation the callback adds during the pass is visited later in the same
\* pass (the pass ends only when pos has reached the current size() and
\* has visited every slot that is live by then), a slot at a higher
\* position that the callback removes before the pass reaches it is
\* skipped, and after every add() of the callback the loop condition still
\* holds, so the pass goes on for as long as the callback keeps adding.
C17_PassFollowsGrowth ==
    /\ []((fe_pc \in {"loop", "done"} /\ ~aborted) =>
            /\ \A p \in Positions :
                  (p < fe_pos /\ valid(Elem(p).handle)) => p \in Visited
            /\ \A p \in cbAhead : p \notin Visited
            /\ fe_pc = "done" => fe_pos >= size)
    /\ [][(fe_pc = "loop" /\ nInserts' # nInserts) =>
             (fe_pc' = "loop" /\ fe_pos' < size')]_vars

C17_Witness ==
    /\ fe_pc = "done"
    /\ "add" \in cbOps
    /\ size = MaxSlots
    /\ (MaxSlots - 1) \in Visited
    /\ (MaxSlots - 1) \notin fe_start
    /\ fe_start # {}

====
